---- MODULE Spec2Model ----
(***************************************************************************)
(* Model of packages/@angular/cli/tasks/lint.ts: the lint task's run(),    *)
(* getFilesToLint() and getFileContents().  The external collaborators     *)
(* (glob, tslint's Linter / Configuration / findFormatter, fs) are         *)
(* modelled at the call sites by what the task observes of them.           *)
(***************************************************************************)
EXTENDS Integers, Sequences, FiniteSets, TLC

VARIABLES
  pc,            \* position of run(): "start","config","file","reduce","format","exit","done","fatal"
  callerOptions, \* the options object handed to run()
  options,       \* options after the defaults are merged in (line 35)
  VERSION,       \* Linter.VERSION of the project's tslint, <<major, minor>>
  moduleLoaded,  \* requireProjectModule was called (line 47)
  ci,            \* index of the config the map callback is working on
  program,       \* the map callback's local `program`
  programsBuilt, \* number of Linter.createProgram calls
  files,         \* the map callback's local `files`
  fi,            \* index of the file the for-loop is at
  lastDirectory, \* the map callback's local `lastDirectory`
  configLoad,    \* the map callback's local `configLoad`
  linter,        \* the Linter instance of the current config: failures, fixes
  results,       \* the array produced by lintConfigs.map(...)
  ri,            \* index of the element the reduce callback is at
  total,         \* the reduce accumulator
  ui,            \* lines written with ui.writeLine
  exitCode,      \* value the returned promise resolves to
  error,         \* the SilentError thrown, if any
  lintLog,       \* every linter.lint call made
  findLog,       \* every Configuration.findConfiguration call made
  readLog,       \* every fs.readFileSync call made
  formatterLog   \* every findFormatter call made

vars == <<pc, callerOptions, options, VERSION, moduleLoaded, ci, program,
          programsBuilt, files, fi, lastDirectory, configLoad, linter,
          results, ri, total, ui, exitCode, error, lintLog, findLog,
          readLog, formatterLog>>

\* ---------------------------------------------------------------- bounds
MaxConfigs == 2

\* ------------------------------------------------------------ JS values
Undefined == [kind |-> "undefined"]
Str(s)    == [kind |-> "string", v |-> s]
Arr(a)    == [kind |-> "array", v |-> a]
IsArray(x) == x.kind = "array"
Truthy(x)  == x.kind # "undefined"

Range(s) == {s[i] : i \in 1..Len(s)}

RECURSIVE Flatten(_)
Flatten(ss) == IF ss = <<>> THEN <<>> ELSE Head(ss) \o Flatten(Tail(ss))

\* ----------------------------------------------------------- filesystem
\* Paths and patterns are sequences of segments; "*" matches one segment.
Dirs == {<<"a">>, <<"b">>}

FS == << <<"a">>, <<"a", "x">>, <<"a", "y">>,
         <<"b">>, <<"b", "q">>, <<"b", "z">> >>

IsDir(p) == p \in Dirs

\* fs.readFileSync throws for a directory and for b/q (no longer readable
\* by the time the file loop runs)
Readable(p) == ~IsDir(p) /\ p # <<"b", "q">>

BOM == "BOM"

RawContents(p) ==
  IF p = <<"a", "y">> THEN <<BOM, "y", "1">>
  ELSE IF p = <<"a", "x">> THEN <<"x", "1">>
  ELSE <<"z", BOM>>

stripBom(s) == IF s # <<>> /\ Head(s) = BOM THEN Tail(s) ELSE s

dirname(p) == SubSeq(p, 1, Len(p) - 1)

Matches(pat, p) ==
  /\ Len(pat) = Len(p)
  /\ \A i \in 1..Len(pat) : pat[i] = "*" \/ pat[i] = p[i]

NoGlobOptions == [ignore |-> <<>>, nodir |-> FALSE]

globSync(pat, globOptions) ==
  SelectSeq(FS, LAMBDA p :
    /\ Matches(pat, p)
    /\ ~(globOptions.nodir /\ IsDir(p))
    /\ \A g \in Range(globOptions.ignore) : ~Matches(g, p))

\* ------------------------------------------------------- getFilesToLint
\* linter.getFileNames(program): the source files the program parsed when
\* it was created
getFileNames(prog) == << <<"a", "x">>, <<"b", "q">>, <<"b", "z">> >>

\* variant: the program's files win over the files setting
ListedFiles_ProgramFirst(prog, lintConfig) ==
  IF Truthy(prog) THEN getFileNames(prog)
  ELSE IF Truthy(lintConfig.files)
    THEN (IF IsArray(lintConfig.files) THEN lintConfig.files.v
                                       ELSE <<lintConfig.files.v>>)
    ELSE <<>>

ListedFiles(prog, lintConfig) ==
  IF Truthy(lintConfig.files)
    THEN (IF IsArray(lintConfig.files) THEN lintConfig.files.v
                                       ELSE <<lintConfig.files.v>>)
    ELSE IF Truthy(prog) THEN getFileNames(prog) ELSE <<>>

GlobOptionsOf(lintConfig) ==
  IF Truthy(lintConfig.exclude)
    THEN [ignore |-> (IF IsArray(lintConfig.exclude) THEN lintConfig.exclude.v
                                                     ELSE <<lintConfig.exclude.v>>),
          nodir |-> TRUE]
    ELSE NoGlobOptions

getFilesToLint(prog, lintConfig) ==
  LET listed == ListedFiles(prog, lintConfig)
      opts   == GlobOptionsOf(lintConfig)
  IN  Flatten([i \in 1..Len(listed) |-> globSync(listed[i], opts)])

\* --------------------------------------------------------------- inputs
Cfg(f, p, t, e) == [files |-> f, project |-> p, tslintConfig |-> t, exclude |-> e]

\* The lint configs an app's .angular-cli.json can hold (CliLintConfig)
ConfigSet ==
  { Cfg(Arr(<< <<"a", "*">>, <<"a", "x">> >>), Undefined, Str("t"), Undefined),
    Cfg(Arr(<< <<"a", "x">>, <<"*">>, <<"b", "z">> >>), Undefined, Undefined, Undefined),
    Cfg(Str(<<"b", "*">>), Str("p"), Str("t"), Undefined),
    Cfg(Undefined, Undefined, Undefined, Undefined),
    Cfg(Arr(<< <<"*">>, <<"*", "*">> >>), Undefined, Undefined, Str(<<"b", "q">>)),
    Cfg(Undefined, Str("p"), Undefined, Arr(<< <<"b", "*">> >>)) }

RECURSIVE SeqsUpTo(_, _)
SeqsUpTo(S, n) ==
  IF n = 0 THEN {<<>>}
  ELSE LET shorter == SeqsUpTo(S, n - 1)
       IN  shorter \cup {Append(s, x) : s \in shorter, x \in S}

ConfigLists == SeqsUpTo(ConfigSet, MaxConfigs)

Formats == {"stylish", "json", "doesNotExist"}

Versions == {<<5, 4>>, <<5, 5>>}

CallerOptions ==
  [fix : BOOLEAN, force : BOOLEAN, silent : BOOLEAN, typeCheck : BOOLEAN,
   format : {Undefined} \cup {Str(f) : f \in Formats},
   configs : {Undefined} \cup {Arr(l) : l \in ConfigLists}]

\* ------------------------------------------------------ LintTaskOptions
\* { ...new LintTaskOptions(), ...options }: a key the caller leaves out
\* keeps the class's default
WithDefaults(o) ==
  [o EXCEPT !.format = IF Truthy(o.format) THEN o.format.v ELSE "prose"]

lintConfigsOf(o) == IF Truthy(o.configs) THEN o.configs.v ELSE <<>>

\* variant: the range also takes in 5.5
satisfiesBelow55_Inclusive(v) == v[1] < 5 \/ (v[1] = 5 /\ v[2] <= 5)

\* satisfies(Linter.VERSION, '< 5.5')
satisfiesBelow55(v) == v[1] < 5 \/ (v[1] = 5 /\ v[2] < 5)

HumanReadable == {"prose", "verbose", "stylish"}

\* ------------------------------------------------------------- tslint
KnownFormatters == {"prose", "verbose", "stylish", "json"}

findFormatter(name) == IF name \in KnownFormatters THEN Str(name) ELSE Undefined

\* formatter.format(failures, fixes): json always prints an array, the
\* human-readable formatters print nothing when there is nothing to report
formatOutput(name, failures, fixes) ==
  IF name \in HumanReadable /\ failures = <<>>
       /\ (~Truthy(fixes) \/ fixes.v = <<>>)
    THEN Undefined
    ELSE [kind |-> "output", format |-> name, failures |-> failures, fixes |-> fixes]

\* Configuration.findConfiguration(configFile, inputFilePath)
findConfiguration(tslintConfig, file) ==
  [kind |-> "load",
   results |-> [override |-> tslintConfig, dir |-> dirname(file)]]

Severity(rules) == IF Truthy(rules.override) THEN "warning" ELSE "error"

\* the rule violations of a file; its one violation in a/x is fixable
RuleOf(file) ==
  IF file = <<"a", "x">> THEN <<"r1">>
  ELSE IF file = <<"b", "z">> THEN <<"r2">>
  ELSE <<>>

FileFailures(file, rules) ==
  [i \in 1..Len(RuleOf(file)) |->
     [file |-> file, rule |-> RuleOf(file)[i], sev |-> Severity(rules)]]

FileFixes(file, rules) ==
  SelectSeq(FileFailures(file, rules), LAMBDA f : f.rule = "r1")

\* RuleFailure.equals: same message, file and position; the severity the
\* configuration gave the rule is not compared
equals(a, b) == a.file = b.file /\ a.rule = b.rule

NewLinter == [failures |-> <<>>, fixes |-> <<>>]

\* linter.lint(file, contents, configuration)
lint(l, fix, file, rules) ==
  [failures |-> l.failures \o FileFailures(file, rules),
   fixes    |-> IF fix THEN l.fixes \o FileFixes(file, rules) ELSE l.fixes]

\* linter.getResult(): LintResult.fixes is optional
ResultsOf(l) ==
  {[failures |-> l.failures, fixes |-> Arr(l.fixes)]}
    \cup (IF l.fixes = <<>>
            THEN {[failures |-> l.failures, fixes |-> Undefined]} ELSE {})

\* --------------------------------------------------------- reduce step
NewFailures(tot, current) ==
  SelectSeq(current.failures,
            LAMBDA cf : ~\E ef \in Range(tot.failures) : equals(ef, cf))

\* variant: fixes filtered like the failures are
MergeFixes_Deduped(tot, current) ==
  IF Truthy(current.fixes)
    THEN LET old == IF Truthy(tot.fixes) THEN tot.fixes.v ELSE <<>>
         IN  Arr(old \o SelectSeq(current.fixes.v,
                      LAMBDA cf : ~\E ef \in Range(old) : equals(ef, cf)))
    ELSE tot.fixes

MergeFixes(tot, current) ==
  IF Truthy(current.fixes)
    THEN Arr((IF Truthy(tot.fixes) THEN tot.fixes.v ELSE <<>>) \o current.fixes.v)
    ELSE tot.fixes

Merge(tot, current) ==
  [failures |-> tot.failures \o NewFailures(tot, current),
   fixes    |-> MergeFixes(tot, current)]

InitialTotal == [failures |-> <<>>, fixes |-> Undefined]

\* ------------------------------------------------------------ messages
NoConfigWarning   == [kind |-> "yellow", text |-> "No lint configuration(s) found."]
TypeCheckWarning  == [kind |-> "yellow", text |-> "A project must be specified to enable type checking."]
FailureBanner     == [kind |-> "red", text |-> "Lint errors found in the listed files."]
SuccessBanner     == [kind |-> "green", text |-> "All files pass linting."]
InvalidFormat(f)  == [kind |-> "SilentError", text |-> "Invalid lint format", arg |-> f]
CouldNotRead(f)   == [kind |-> "SilentError", text |-> "Could not read file", arg |-> f]
TypeError         == [kind |-> "TypeError", text |-> "configLoad is undefined", arg |-> <<>>]
NoError           == [kind |-> "none"]
\* the promise run() returns: <<>> until resolved, then <<code>>
Unresolved        == <<>>
Resolved(code)    == <<code>>

\* ----------------------------------------------------------------- Init
Init ==
  /\ callerOptions \in CallerOptions
  /\ VERSION \in Versions
  /\ options = Undefined
  /\ pc = "start"
  /\ moduleLoaded = FALSE
  /\ ci = 0
  /\ program = Undefined
  /\ programsBuilt = 0
  /\ files = <<>>
  /\ fi = 0
  /\ lastDirectory = Undefined
  /\ configLoad = Undefined
  /\ linter = NewLinter
  /\ results = <<>>
  /\ ri = 0
  /\ total = InitialTotal
  /\ ui = <<>>
  /\ exitCode = Unresolved
  /\ error = NoError
  /\ lintLog = <<>>
  /\ findLog = <<>>
  /\ readLog = <<>>
  /\ formatterLog = <<>>

lintConfigs == lintConfigsOf(callerOptions)

\* variant: the warning ignores the silent flag
NoConfigLines_Loud(opts) == <<NoConfigWarning>>

\* lines 41-43: what the early return writes
NoConfigLines(opts) == IF ~opts.silent THEN <<NoConfigWarning>> ELSE <<>>

\* lines 35-49: merge the defaults, return early without configs, else load
\* the project's tslint
Start ==
  /\ pc = "start"
  /\ options' = WithDefaults(callerOptions)
  /\ IF Len(lintConfigs) = 0
       THEN /\ ui' = ui \o NoConfigLines(options')
            /\ exitCode' = Resolved(0)
            /\ pc' = "done"
            /\ UNCHANGED <<moduleLoaded, ci>>
       ELSE /\ moduleLoaded' = TRUE
            /\ ci' = 1
            /\ pc' = "config"
            /\ UNCHANGED <<ui, exitCode>>
  /\ UNCHANGED <<callerOptions, VERSION, program, programsBuilt, files, fi,
                 lastDirectory, configLoad, linter, results, ri, total, error,
                 lintLog, findLog, readLog, formatterLog>>

createProgram(project) == [kind |-> "program", project |-> project.v]

\* the program the map callback holds after line 60
ProgramCreated(config) ==
  IF Truthy(config.project) THEN createProgram(config.project) ELSE Undefined

\* the program the Linter is constructed with (lines 69-73)
ProgramUsed(config, opts, version) ==
  IF satisfiesBelow55(version) /\ ~opts.typeCheck
    THEN Undefined
    ELSE ProgramCreated(config)

\* lines 53-76: the map callback up to its file loop
BeginConfig ==
  /\ pc = "config"
  /\ LET config == lintConfigs[ci] IN
       /\ programsBuilt' = IF Truthy(config.project) THEN programsBuilt + 1
                                                     ELSE programsBuilt
       /\ ui' = IF ~Truthy(config.project) /\ options.typeCheck /\ ~options.silent
                  THEN Append(ui, TypeCheckWarning) ELSE ui
       /\ files' = getFilesToLint(ProgramCreated(config), config)
       /\ program' = ProgramUsed(config, options, VERSION)
  /\ linter' = NewLinter
  /\ lastDirectory' = Undefined
  /\ configLoad' = Undefined
  /\ fi' = 1
  /\ pc' = "file"
  /\ UNCHANGED <<callerOptions, options, VERSION, moduleLoaded, ci, results,
                 ri, total, exitCode, error, lintLog, findLog, readLog,
                 formatterLog>>

\* line 79: the contents handed to the linter
getFileContents(file) == Str(stripBom(RawContents(file)))

NeedsRead(prog) == ~Truthy(prog)

\* variant: the configuration is looked up for the first file only
NeedsLookup_FirstOnly(currentDirectory, last) == ~Truthy(last)

\* line 83: a new lookup only when the directory changes
NeedsLookup(currentDirectory, last) == Str(currentDirectory) # last

\* lines 77-89: one iteration of the file loop that reaches linter.lint
LintFile ==
  /\ pc = "file"
  /\ fi <= Len(files)
  /\ LET file   == files[fi]
         config == lintConfigs[ci]
         read   == NeedsRead(program)
         fileContents == IF read THEN getFileContents(file) ELSE Undefined
         lookup == NeedsLookup(dirname(file), lastDirectory)
         load   == IF lookup THEN findConfiguration(config.tslintConfig, file)
                             ELSE configLoad
     IN
       /\ read => Readable(file)
       /\ readLog' = IF read THEN Append(readLog, [ci |-> ci, fi |-> fi, file |-> file])
                             ELSE readLog
       /\ findLog' = IF lookup
                       THEN Append(findLog, [ci |-> ci, fi |-> fi, file |-> file,
                                             configFile |-> config.tslintConfig])
                       ELSE findLog
       /\ configLoad' = load
       /\ lastDirectory' = IF lookup THEN Str(dirname(file)) ELSE lastDirectory
       /\ IF Truthy(load)
            THEN /\ linter' = lint(linter, options.fix, file, load.results)
                 /\ lintLog' = Append(lintLog,
                      [ci |-> ci, fi |-> fi, file |-> file,
                       contents |-> fileContents, configuration |-> load.results,
                       program |-> program])
                 /\ fi' = fi + 1
                 /\ UNCHANGED <<pc, error>>
            ELSE /\ error' = TypeError
                 /\ pc' = "fatal"
                 /\ UNCHANGED <<linter, lintLog, fi>>
  /\ UNCHANGED <<callerOptions, options, VERSION, moduleLoaded, ci, program,
                 programsBuilt, files, results, ri, total, ui, exitCode,
                 formatterLog>>

\* variant: the read error is caught per file and the loop goes on
ReadFailure_Skipped(file, i) == [pc |-> "file", error |-> NoError, fi |-> i + 1]

\* lines 172-176: the exception leaves the loop, the map and run()
ReadFailure(file, i) == [pc |-> "fatal", error |-> CouldNotRead(file), fi |-> i]

\* lines 79, 170-176: readFileSync throws and getFileContents rethrows
ReadFail ==
  /\ pc = "file"
  /\ fi <= Len(files)
  /\ NeedsRead(program)
  /\ ~Readable(files[fi])
  /\ readLog' = Append(readLog, [ci |-> ci, fi |-> fi, file |-> files[fi]])
  /\ LET after == ReadFailure(files[fi], fi) IN
       /\ error' = after.error
       /\ pc' = after.pc
       /\ fi' = after.fi
  /\ UNCHANGED <<callerOptions, options, VERSION, moduleLoaded, ci, program,
                 programsBuilt, files, lastDirectory, configLoad, linter,
                 results, ri, total, ui, exitCode, lintLog, findLog,
                 formatterLog>>

\* line 91: the map callback returns linter.getResult(); after the last
\* config the reduce starts from its initial value (lines 102-105)
EndConfig ==
  /\ pc = "file"
  /\ fi > Len(files)
  /\ \E r \in ResultsOf(linter) : results' = Append(results, r)
  /\ IF ci < Len(lintConfigs)
       THEN /\ ci' = ci + 1
            /\ pc' = "config"
            /\ UNCHANGED <<ri, total>>
       ELSE /\ ri' = 1
            /\ total' = InitialTotal
            /\ pc' = "reduce"
            /\ UNCHANGED ci
  /\ UNCHANGED <<callerOptions, options, VERSION, moduleLoaded, program,
                 programsBuilt, files, fi, lastDirectory, configLoad, linter,
                 ui, exitCode, error, lintLog, findLog, readLog, formatterLog>>

\* lines 93-101: one call of the reduce callback
Reduce ==
  /\ pc = "reduce"
  /\ ri <= Len(results)
  /\ total' = Merge(total, results[ri])
  /\ ri' = ri + 1
  /\ pc' = IF ri = Len(results) THEN "format" ELSE "reduce"
  /\ UNCHANGED <<callerOptions, options, VERSION, moduleLoaded, ci, program,
                 programsBuilt, files, fi, lastDirectory, configLoad, linter,
                 results, ui, exitCode, error, lintLog, findLog, readLog,
                 formatterLog>>

\* variant: the formatter is looked for even when silent
ResolvesFormatter_Always(opts) == TRUE

\* line 107: the formatter is only looked for when output is wanted
ResolvesFormatter(opts) == ~opts.silent

\* variant: the missing check for an unknown formatter
InvalidFormatter_Unchecked(Formatter) == FALSE

\* line 109
InvalidFormatter(Formatter) == ~Truthy(Formatter)

\* lines 107-118: resolve the formatter and print its output
Format ==
  /\ pc = "format"
  /\ IF ResolvesFormatter(options)
       THEN /\ formatterLog' = Append(formatterLog, options.format)
            /\ IF InvalidFormatter(findFormatter(options.format))
                 THEN /\ error' = InvalidFormat(options.format)
                      /\ pc' = "fatal"
                      /\ UNCHANGED ui
                 ELSE /\ LET output == formatOutput(options.format,
                                                    total.failures, total.fixes)
                         IN  ui' = IF Truthy(output) THEN Append(ui, output) ELSE ui
                      /\ pc' = "exit"
                      /\ UNCHANGED error
       ELSE /\ pc' = "exit"
            /\ UNCHANGED <<formatterLog, error, ui>>
  /\ UNCHANGED <<callerOptions, options, VERSION, moduleLoaded, ci, program,
                 programsBuilt, files, fi, lastDirectory, configLoad, linter,
                 results, ri, total, exitCode, lintLog, findLog, readLog>>

\* variant: the machine-readable branch forgets the force flag
ExitCodeOf_ForceIgnored(opts, result) ==
  IF opts.format \notin HumanReadable
    THEN (IF Len(result.failures) = 0 THEN 0 ELSE 2)
    ELSE IF Len(result.failures) > 0
           THEN (IF opts.force THEN 0 ELSE 2)
           ELSE 0

\* lines 120-136: the value the promise resolves to
ExitCodeOf(opts, result) ==
  IF opts.format \notin HumanReadable
    THEN (IF Len(result.failures) = 0 \/ opts.force THEN 0 ELSE 2)
    ELSE IF Len(result.failures) > 0
           THEN (IF opts.force THEN 0 ELSE 2)
           ELSE 0

\* lines 126-135: the banner of the human-readable formats
BannerOf(opts, result) ==
  IF opts.format \notin HumanReadable \/ opts.silent
    THEN <<>>
    ELSE IF Len(result.failures) > 0 THEN <<FailureBanner>> ELSE <<SuccessBanner>>

Exit ==
  /\ pc = "exit"
  /\ ui' = ui \o BannerOf(options, total)
  /\ exitCode' = Resolved(ExitCodeOf(options, total))
  /\ pc' = "done"
  /\ UNCHANGED <<callerOptions, options, VERSION, moduleLoaded, ci, program,
                 programsBuilt, files, fi, lastDirectory, configLoad, linter,
                 results, ri, total, error, lintLog, findLog, readLog,
                 formatterLog>>

Next ==
  \/ Start
  \/ BeginConfig
  \/ LintFile
  \/ ReadFail
  \/ EndConfig
  \/ Reduce
  \/ Format
  \/ Exit

Spec == Init /\ [][Next]_vars

\* ------------------------------------------------------------- helpers
Terminal == pc \in {"done", "fatal"}

NonEmptyRun == Len(lintConfigs) > 0

OutputOrBanner(line) == line.kind \in {"output", "red", "green"}

Printed(P(_)) == \E i \in 1..Len(ui) : P(ui[i])

\* ------------------------------------------------------------------ C1
\* C1: a run that completes without a fatal error resolves to 0 or 2, and
\* to 2 exactly when the merged failure list is non-empty and force is
\* false, whatever the format and the silent flag; a run that has not
\* completed has resolved to nothing.
C1_ExitCode ==
  /\ pc = "done" =>
       /\ exitCode \in {Resolved(0), Resolved(2)}
       /\ exitCode = Resolved(2) <=> (total.failures # <<>> /\ ~options.force)
  /\ pc # "done" => exitCode = Unresolved

\* a machine-readable, forced run with failures resolves to 0
C1_Witness ==
  /\ pc = "done"
  /\ options.format = "json"
  /\ options.force
  /\ total.failures # <<>>
  /\ exitCode = Resolved(0)

\* ------------------------------------------------------------------ C4
\* C4: with an empty or missing config list run() resolves to 0, writes
\* exactly the one warning line unless silent, and does nothing else: no
\* tslint module, no program, no file read or linted, no configuration
\* lookup, no formatter, no banner.
C4_NoConfigs ==
  (~NonEmptyRun /\ pc # "start") =>
     /\ pc = "done"
     /\ exitCode = Resolved(0)
     /\ ui = (IF options.silent THEN <<>> ELSE <<NoConfigWarning>>)
     /\ ~moduleLoaded
     /\ programsBuilt = 0
     /\ lintLog = <<>> /\ readLog = <<>> /\ findLog = <<>>
     /\ formatterLog = <<>>
     /\ results = <<>>

\* a silent run whose options carry no configs key at all
C4_Witness ==
  /\ pc = "done"
  /\ ~Truthy(callerOptions.configs)
  /\ options.silent
  /\ ui = <<>>
  /\ exitCode = Resolved(0)

\* ------------------------------------------------------------------ C2
\* number of results the reduce callback has consumed
Processed ==
  IF pc = "reduce" THEN ri - 1
  ELSE IF pc \in {"format", "exit", "done"} \/ formatterLog # <<>> THEN Len(results)
  ELSE 0

ReduceDone == Len(results) > 0 /\ Processed = Len(results)

Count(seq, f) == Cardinality({i \in 1..Len(seq) : equals(seq[i], f)})

Class(f) == <<f.file, f.rule>>

Classes(seq) == {Class(seq[i]) : i \in 1..Len(seq)}

Reported == UNION {Range(results[i].failures) : i \in 1..Len(results)}

Reverse(seq) == [i \in 1..Len(seq) |-> seq[Len(seq) + 1 - i]]

RECURSIVE MergeAll(_, _)
MergeAll(tot, rs) ==
  IF rs = <<>> THEN tot ELSE MergeAll(Merge(tot, Head(rs)), Tail(rs))

Overlapping ==
  \E i, j \in 1..Len(results) :
    /\ i < j
    /\ \E f \in Range(results[i].failures), g \in Range(results[j].failures) :
         equals(f, g)

\* C2: when configs produce overlapping failures (equal under equals), the
\* merged failure list holds each distinct failure exactly once, and holds
\* the same failures whatever the order of the configs.
C2_Deduplicated ==
  (ReduceDone /\ Overlapping) =>
     /\ \A f \in Reported : Count(total.failures, f) = 1
     /\ Classes(total.failures) = {Class(f) : f \in Reported}
     /\ Classes(total.failures) =
          Classes(MergeAll(InitialTotal, Reverse(results)).failures)

\* ------------------------------------------------------------------ C3
ReportedFixes(i) ==
  IF Truthy(results[i].fixes) THEN results[i].fixes.v ELSE <<>>

FixesOfFirst(n) == Flatten([i \in 1..n |-> ReportedFixes(i)])

\* C3 as stated: the merged fixes are the concatenation, in config order, of
\* every config's fixes, and undefined when no config reported any fix.
C3_UndefinedWhenNoFix ==
  Processed > 0 =>
     IF FixesOfFirst(Processed) = <<>>
       THEN total.fixes = Undefined
       ELSE total.fixes = Arr(FixesOfFirst(Processed))

\* C3 (amended): the merged fixes are the concatenation, in config order and
\* without deduplication, of every config's fixes; they are undefined
\* exactly when every merged result left its fixes undefined, and a result
\* carrying an empty fixes array makes them a defined, possibly empty, array.
C3_FixesConcatenated ==
  Processed > 0 =>
     IF \A i \in 1..Processed : ~Truthy(results[i].fixes)
       THEN total.fixes = Undefined
       ELSE total.fixes = Arr(FixesOfFirst(Processed))

\* two configs each reported the same single fix and both copies are kept
C3_Witness ==
  /\ ReduceDone
  /\ Len(results) = 2
  /\ Truthy(results[1].fixes) /\ Len(results[1].fixes.v) = 1
  /\ results[2].fixes = results[1].fixes
  /\ Truthy(total.fixes) /\ Len(total.fixes.v) = 2
  /\ total.fixes.v[1] = total.fixes.v[2]

\* ------------------------------------------------- C5, C6, C7 helpers
\* the file list each possible config resolves to
ResolvedFiles == [c \in ConfigSet |-> getFilesToLint(ProgramCreated(c), c)]

FilesOfConfig(i) == ResolvedFiles[lintConfigs[i]]

\* the configs whose resolved file list holds a file that cannot be read
WithUnreadable == {c \in ConfigSet : \E f \in Range(ResolvedFiles[c]) : ~Readable(f)}

\* config i is linted from disk: its Linter was constructed without a program
ReadsFromDisk(i) ==
  ~Truthy(ProgramUsed(lintConfigs[i], WithDefaults(callerOptions), VERSION))

Positions ==
  UNION {{<<i, j>> : j \in 1..Len(FilesOfConfig(i))} :
           i \in {k \in 1..Len(lintConfigs) : lintConfigs[k] \in WithUnreadable}}

Earlier(p, q) == p[1] < q[1] \/ (p[1] = q[1] /\ p[2] < q[2])

\* some resolved file list holds a file that cannot be read
UnreadableInput == \E i \in 1..Len(lintConfigs) : lintConfigs[i] \in WithUnreadable

\* the positions at which run() reads a file that cannot be read
BadReads ==
  {p \in Positions : /\ lintConfigs[p[1]] \in WithUnreadable
                     /\ ~Readable(FilesOfConfig(p[1])[p[2]])
                     /\ ReadsFromDisk(p[1])}

FirstBadRead == CHOOSE p \in BadReads : \A q \in BadReads : q = p \/ Earlier(p, q)

FileAt(p) == FilesOfConfig(p[1])[p[2]]

UnknownFormat == findFormatter(WithDefaults(callerOptions).format) = Undefined

Silent == callerOptions.silent

\* ------------------------------------------------------------------ C5
\* C5 as stated: a run with configs, silent=false and a format findFormatter
\* does not know ends in the fatal error naming the format, with no
\* formatter output, no banner and no exit code.
C5_AlwaysInvalidFormat ==
  (NonEmptyRun /\ ~Silent /\ UnknownFormat) =>
     /\ pc \notin {"exit", "done"}
     /\ exitCode = Unresolved
     /\ ~Printed(OutputOrBanner)
     /\ pc = "fatal" => error = InvalidFormat(options.format)

\* C5 (amended): such a run ends in a fatal error with no formatter output,
\* no banner and no exit code; the error names the requested format when the
\* run gets as far as resolving the formatter, and names the file when an
\* unreadable file stopped the run before that.
C5_InvalidFormatFatal ==
  (NonEmptyRun /\ ~Silent /\ UnknownFormat) =>
     /\ pc \notin {"exit", "done"}
     /\ exitCode = Unresolved
     /\ ~Printed(OutputOrBanner)
     /\ pc = "fatal" =>
          IF BadReads = {}
            THEN error = InvalidFormat(options.format) /\ formatterLog # <<>>
            ELSE error = CouldNotRead(FileAt(FirstBadRead)) /\ formatterLog = <<>>

\* files were linted with failures, then the unknown format stopped the run
C5_Witness ==
  /\ pc = "fatal"
  /\ ~options.silent
  /\ error = InvalidFormat("doesNotExist")
  /\ total.failures # <<>>
  /\ ~Printed(OutputOrBanner)

C7_UnreadableAlwaysAborts ==
  (NonEmptyRun /\ UnreadableInput) =>
     /\ pc \notin {"reduce", "format", "exit", "done"}
     /\ exitCode = Unresolved
     /\ pc = "fatal" => error.text = "Could not read file"

\* C7 (amended): if a file of a config that is linted without an active
\* program is unreadable, the run aborts with the error naming the first
\* such file when the loop reaches it: every lint call made precedes it, no
\* later file or config is linted, nothing is merged, formatted or printed
\* and no exit code is returned.  A config linted with an active program
\* never reads its files, so an unreadable file there raises nothing here.
C7_UnreadableReadAborts ==
  (NonEmptyRun /\ BadReads # {}) =>
     /\ pc \notin {"reduce", "format", "exit", "done"}
     /\ exitCode = Unresolved
     /\ \A k \in 1..Len(lintLog) :
          Earlier(<<lintLog[k].ci, lintLog[k].fi>>, FirstBadRead)
     /\ Len(results) < FirstBadRead[1]
     /\ total = InitialTotal /\ formatterLog = <<>>
     /\ ~Printed(OutputOrBanner)
     /\ pc = "fatal" =>
          /\ error = CouldNotRead(FileAt(FirstBadRead))
          /\ <<ci, fi>> = FirstBadRead

\* the run stopped at a directory after linting a file, with a later file
\* of the same config and a later config left untouched
C7_Witness ==
  /\ pc = "fatal"
  /\ error = CouldNotRead(<<"a">>)
  /\ Len(lintLog) > 0
  /\ fi < Len(files)
  /\ ci < Len(lintConfigs)

\* ------------------------------------------------------------------ C8
LookedUp(c, j) == \E k \in 1..Len(findLog) : findLog[k].ci = c /\ findLog[k].fi = j

Lookups(c, j) == {k \in 1..Len(findLog) : findLog[k].ci = c /\ findLog[k].fi = j}

\* the file linted just before lint call k, in the same config
PreviousFile(k) == lintLog[k - 1].file

\* C8: in a config's file loop findConfiguration(config.tslintConfig, file)
\* is called for a file exactly when the file is the config's first or its
\* directory differs from the preceding file's; so every lint call uses a
\* defined configuration looked up in this config for the directory of the
\* linted file, and nothing cached survives into the next config.
C8_ConfigurationLookup ==
  /\ \A k \in 1..Len(lintLog) :
       LET e == lintLog[k] IN
         /\ e.fi > 1 => (k > 1 /\ lintLog[k - 1].ci = e.ci /\ lintLog[k - 1].fi = e.fi - 1)
         /\ LookedUp(e.ci, e.fi) <=>
              (e.fi = 1 \/ dirname(e.file) # dirname(PreviousFile(k)))
         /\ Cardinality(Lookups(e.ci, e.fi)) <= 1
         /\ e.configuration.dir = dirname(e.file)
         /\ e.configuration.override = lintConfigs[e.ci].tslintConfig
  /\ \A k \in 1..Len(findLog) :
       /\ findLog[k].configFile = lintConfigs[findLog[k].ci].tslintConfig
       /\ \E n \in 1..Len(lintLog) :
            /\ lintLog[n].ci = findLog[k].ci
            /\ lintLog[n].fi = findLog[k].fi
            /\ lintLog[n].file = findLog[k].file
  /\ error # TypeError
  /\ pc = "file" =>
       /\ Truthy(configLoad) <=> fi > 1
       /\ Truthy(lastDirectory) <=> fi > 1

\* one config reused a lookup and then made a new one on a directory change;
\* the next config started in the directory the first one ended in and
\* looked its configuration up again
C8_Witness ==
  \E k \in 1..Len(lintLog), n \in 1..Len(lintLog) :
    /\ lintLog[k].ci = 1 /\ lintLog[k].fi = 2 /\ ~LookedUp(1, 2)
    /\ LookedUp(1, 3)
    /\ lintLog[n].ci = 2 /\ lintLog[n].fi = 1 /\ LookedUp(2, 1)
    /\ dirname(lintLog[n].file) = dirname(lintLog[n - 1].file)

\* ------------------------------------------------------------------ C9
\* the claim's condition for an active program
ProgramActive(c) ==
  /\ lintConfigs[c].project # Undefined
  /\ ~((VERSION[1] < 5 \/ (VERSION[1] = 5 /\ VERSION[2] < 5)) /\ ~callerOptions.typeCheck)

WasRead(c, j) == \E k \in 1..Len(readLog) : readLog[k].ci = c /\ readLog[k].fi = j

\* C9: for every file linted, the contents are read from disk (and passed
\* on with a leading byte-order mark removed) exactly when no program is
\* active for the config, and undefined contents are passed otherwise; a
\* program is active exactly when the config sets project and it is not
\* the case that tslint is below 5.5 with typeCheck false.
C9_ContentsOrProgram ==
  /\ \A k \in 1..Len(lintLog) :
       LET e == lintLog[k] IN
         /\ Truthy(e.program) <=> ProgramActive(e.ci)
         /\ WasRead(e.ci, e.fi) <=> ~ProgramActive(e.ci)
         /\ e.contents = Undefined <=> ProgramActive(e.ci)
         /\ ~ProgramActive(e.ci) =>
              /\ e.contents.kind = "string"
              /\ e.contents.v = (IF Head(RawContents(e.file)) = BOM
                                   THEN Tail(RawContents(e.file))
                                   ELSE RawContents(e.file))
  /\ \A k \in 1..Len(readLog) : ~ProgramActive(readLog[k].ci)
  /\ pc = "file" => (Truthy(program) <=> ProgramActive(ci))

\* the version workaround: the file list came from the program (no files
\* setting) and the file was linted with contents read from disk
C9_Witness ==
  \E k \in 1..Len(lintLog) :
    /\ lintConfigs[lintLog[k].ci].files = Undefined
    /\ lintConfigs[lintLog[k].ci].project # Undefined
    /\ lintLog[k].contents # Undefined
    /\ WasRead(lintLog[k].ci, lintLog[k].fi)
    /\ programsBuilt > 0

\* ----------------------------------------------------------------- C10
Patterns(x) == IF x.kind = "array" THEN x.v ELSE <<x.v>>

Excluded(config, p) ==
  /\ config.exclude # Undefined
  /\ \/ \E g \in Range(Patterns(config.exclude)) : Matches(g, p)
     \/ IsDir(p)

\* the expansion of one listed entry for a config
Expansion(config, pat) ==
  SelectSeq(FS, LAMBDA p : Matches(pat, p) /\ ~Excluded(config, p))

\* what the claim lists for a config whose program was created or not
ClaimedList(config) ==
  IF config.files # Undefined THEN Patterns(config.files)
  ELSE IF config.project # Undefined THEN getFileNames(config.project)
  ELSE <<>>

Occurrences(seq, p) == Cardinality({i \in 1..Len(seq) : seq[i] = p})

\* the list the claim gives for each possible config
ClaimedFiles ==
  [c \in ConfigSet |->
     LET listed == ClaimedList(c)
     IN  Flatten([i \in 1..Len(listed) |-> Expansion(c, listed[i])])]

\* and how often it holds each path: once per entry matching it
ClaimedOccurrences ==
  [c \in ConfigSet |->
     [p \in Range(FS) |->
        IF Excluded(c, p) THEN 0
        ELSE Cardinality({i \in 1..Len(ClaimedList(c)) : Matches(ClaimedList(c)[i], p)})]]

\* C10: getFilesToLint returns the concatenation, in pattern order, of the
\* glob expansion of each entry of config.files when files is given
\* (whatever the program), else of each file name of the program when there
\* is one, else nothing; exclude patterns are ignore patterns of every
\* expansion; a path matched by several entries appears once per match and
\* is linted that often.
C10_FilesToLint ==
  (pc \in {"file", "fatal"} /\ ci > 0) =>
     LET config == lintConfigs[ci]
     IN  /\ files = ClaimedFiles[config]
         /\ \A p \in Range(FS) : Occurrences(files, p) = ClaimedOccurrences[config][p]
         /\ (pc = "file" /\ fi > Len(files)) =>
              \A p \in Range(FS) :
                Cardinality({k \in 1..Len(lintLog) :
                               lintLog[k].ci = ci /\ lintLog[k].file = p})
                  = Occurrences(files, p)

\* a file matched by two entries of files was linted twice in one config
C10_Witness ==
  \E k \in 1..Len(lintLog), n \in 1..Len(lintLog) :
    /\ k < n
    /\ lintLog[k].ci = lintLog[n].ci
    /\ lintLog[k].file = lintLog[n].file
    /\ Occurrences(files, lintLog[k].file) = 2
    /\ ci = lintLog[k].ci

====
